---- MODULE Spec2Model ----
(***************************************************************************)
(* A model of the crawl engine of hyperplex (scrape.py, scrape2.py):       *)
(* the WebDriverPool, the tasks that check drivers out of it, the retry    *)
(* loops safe_get and process_link_with_timeout_and_retry, the signal      *)
(* handler, the frontier loop of start_scraping and insert_law_entry over  *)
(* the table law_entries (db.py).                                          *)
(***************************************************************************)
EXTENDS Integers, Sequences, FiniteSets, TLC

(***************************************************************************)
(* Bounds of the model.                                                    *)
(***************************************************************************)
\* safe_get is run with attempts in 1..MaxAttempts (the default is 5).
MaxAttempts == 5
\* process_link_with_timeout_and_retry is run with max_retries in
\* 1..MaxRetries (the default is 3).
MaxRetries == 3

\* scrape2.py: ThreadPoolExecutor(max_workers=1), both executors.
Scrape2Workers == 1
\* The pool is built with PoolSize drivers (WebDriverPool(max_size=...)).
PoolSize == 1
\* The executor runs at most MaxWorkers tasks at a time (max_workers=...).
MaxWorkers == 3
\* The targets (URLs) of a run are 1..NumTargets.
NumTargets == 3
\* scrape_manylawsections calls itself at most MaxDepth deep (the
\* interpreter's recursion limit).
MaxDepth == 1
\* The pages that hold a law section are 1..NumUrls.
NumUrls == 1
\* A run calls insert_law_entry at most MaxCalls times.
MaxCalls == 2

Targets == 1..NumTargets
\* task has a slot for scrape_url(u), u itself, and one for
\* scrape_manylawsections(u), which scrape2.py submits while the scrape_url
\* tasks of later waves are still to come.
Slots == 1..(2 * NumTargets)
Drivers == 1..PoolSize

VARIABLES
    sg,                 \* one activation of CustomWebDriver.safe_get
    pl,                 \* one activation of process_link_with_timeout_and_retry
    available_drivers,  \* WebDriverPool.available_drivers, a FIFO queue
    semaphore,          \* the value of WebDriverPool.semaphore
    quit_count,         \* driver -> number of driver.quit() calls
    stop_event,         \* SeleniumScraper.stop_event
    executor_shutdown,  \* whether self.executor.shutdown has been called
    sigpc,              \* the position of signal_handler
    task,               \* target -> the task submitted for it
    site,               \* the web site: base_urls, links, leaves
    mainpc,             \* the position of start_scraping
    main_error,         \* what start_scraping raised, "none" if nothing
    timerpc,            \* the position of the display_timer thread
    to_submit,          \* targets the running dict comprehension has yet to submit
    futures,            \* futures that as_completed has yet to yield
    urls_to_scrape,     \* the local of start_scraping
    visited_links,      \* SeleniumScraper.visited_links
    law_section_links,  \* SeleniumScraper.law_section_links
    submit_count,       \* target -> number of scrape_url tasks submitted for it
    leaf_submit_count,  \* target -> number of scrape_manylawsections tasks
                        \* submitted for it
    law_entries,        \* the table law_entries: key (url, text) -> number of rows
    n_entries_added,    \* SeleniumScraper.n_entries_added
    ins,                \* thread -> its activation of insert_law_entry
    run,                \* which run over the same db_file this is (1 or 2)
    calls,              \* the number of insert_law_entry calls of this run
    processed,          \* the records this run has handed to insert_law_entry
    records,            \* the records (result dicts) the site's leaf pages yield
    engine,             \* which module runs: "scrape" (scrape.py) or "scrape2"
    max_size,           \* WebDriverPool(max_size=...)
    processed_manylaw_links  \* scrape2: SeleniumScraper.processed_manylaw_links

poolVars == <<available_drivers, semaphore, quit_count>>
configVars == <<engine, max_size>>
dbVars == <<law_entries, n_entries_added, ins, run, calls, processed, records>>
crawlVars == <<site, mainpc, main_error, timerpc, to_submit, futures,
               urls_to_scrape, visited_links, law_section_links, submit_count,
               leaf_submit_count, processed_manylaw_links>>
engineVars == <<available_drivers, semaphore, quit_count, stop_event,
                executor_shutdown, sigpc, task, site, mainpc, main_error,
                timerpc, to_submit, futures, urls_to_scrape, visited_links,
                law_section_links, submit_count, leaf_submit_count, engine,
                max_size, processed_manylaw_links>>
vars == <<sg, pl, available_drivers, semaphore, quit_count, stop_event,
          executor_shutdown, sigpc, task, site, mainpc, main_error, timerpc,
          to_submit, futures, urls_to_scrape, visited_links,
          law_section_links, submit_count, leaf_submit_count, law_entries,
          n_entries_added, ins, run, calls, processed, records, engine,
          max_size, processed_manylaw_links>>

(***************************************************************************)
(* CustomWebDriver.safe_get(url, attempts, backoff).                       *)
(*   variant         "scrape" (scrape.py) or "scrape2" (scrape2.py)        *)
(*   attempts        the parameter                                         *)
(*   current_attempt the local of that name                                *)
(*   pc              "idle", "loop", "except", "sleep", "returned",        *)
(*                   "raised"                                              *)
(*   nav             the outcome of every self.get(url) so far             *)
(*   sleeps          the number of time.sleep(backoff) calls so far        *)
(*   error           what was raised: "none", "nav" (the exception of      *)
(*                   self.get), "attr" (the AttributeError of              *)
(*                   logging.Error)                                        *)
(***************************************************************************)
SafeGetVariants == {"scrape", "scrape2"}

SafeGetIdle ==
    [variant |-> "scrape", attempts |-> 0, current_attempt |-> 0, pc |-> "idle",
     nav |-> <<>>, sleeps |-> 0, error |-> "none"]

SafeGetStart(v, a) ==
    [variant |-> v, attempts |-> a, current_attempt |-> 1, pc |-> "loop",
     nav |-> <<>>, sleeps |-> 0, error |-> "none"]

\* scrape.py line 80-81: logging.Error is not an attribute of the logging
\* module, so the statement raises AttributeError inside the handler;
\* scrape2.py line 77-78 prints instead.
LogsWithLoggingError(s) ==
    s.variant = "scrape" /\ s.current_attempt > 3

\* while current_attempt <= attempts: try: self.get(url); return
SafeGetLoop ==
    /\ sg.pc = "loop"
    /\ IF sg.current_attempt <= sg.attempts
       THEN \E outcome \in {"ok", "err"} :
               sg' = [sg EXCEPT !.nav = Append(@, outcome),
                                !.pc = IF outcome = "ok" THEN "returned"
                                                         ELSE "except"]
       ELSE sg' = [sg EXCEPT !.pc = "returned"]
    /\ UNCHANGED <<pl, dbVars, engineVars>>

\* except Exception as e: ... raise / current_attempt += 1
SafeGetExcept ==
    /\ sg.pc = "except"
    /\ IF LogsWithLoggingError(sg)
       THEN sg' = [sg EXCEPT !.pc = "raised", !.error = "attr"]
       ELSE IF sg.current_attempt = sg.attempts
            THEN sg' = [sg EXCEPT !.pc = "raised", !.error = "nav"]
            ELSE sg' = [sg EXCEPT !.current_attempt = @ + 1, !.pc = "sleep"]
    /\ UNCHANGED <<pl, dbVars, engineVars>>

\* time.sleep(backoff)
SafeGetSleep ==
    /\ sg.pc = "sleep"
    /\ sg' = [sg EXCEPT !.sleeps = @ + 1, !.pc = "loop"]
    /\ UNCHANGED <<pl, dbVars, engineVars>>

(***************************************************************************)
(* CaliforniaScraper.process_link_with_timeout_and_retry.                  *)
(*   max_retries, retry_count  the parameter and the local                 *)
(*   pc       "idle", "loop", "wait" (in future.result(timeout)), "exit"   *)
(*            (in the executor's __exit__, shutdown(wait=True)), "except", *)
(*            "sleep", "returned", "raised"                                *)
(*   attempt  the process_link call on the one-worker executor: "none",    *)
(*            "running" or "hung" (it never completes)                     *)
(*   started  the number of process_link calls submitted so far            *)
(*   hist     how every attempt ended for the runner: "ok", "retryable",   *)
(*            "fatal" (both are exceptions of process_link), "timeout"     *)
(*   sleeps   the number of time.sleep(5) calls so far                     *)
(***************************************************************************)
FailureKinds == {"retryable", "fatal"}

RunnerIdle ==
    [max_retries |-> 0, retry_count |-> 0, pc |-> "idle", attempt |-> "none",
     started |-> 0, hist |-> <<>>, sleeps |-> 0]

RunnerStart(m) ==
    [max_retries |-> m, retry_count |-> 0, pc |-> "loop", attempt |-> "none",
     started |-> 0, hist |-> <<>>, sleeps |-> 0]

\* while retry_count < max_retries: ... executor.submit(self.process_link, ...)
\* and, after the loop, return None.
RunnerSubmit ==
    /\ pl.pc = "loop"
    /\ IF pl.retry_count < pl.max_retries
       THEN \E a \in {"running", "hung"} :
               pl' = [pl EXCEPT !.pc = "wait", !.attempt = a,
                                !.started = @ + 1]
       ELSE pl' = [pl EXCEPT !.pc = "returned"]
    /\ UNCHANGED <<sg, dbVars, engineVars>>

\* process_link returns its result within the timeout: return result.
AttemptReturns ==
    /\ pl.pc = "wait"
    /\ pl.attempt = "running"
    /\ pl' = [pl EXCEPT !.pc = "returned", !.attempt = "none",
                        !.hist = Append(@, "ok")]
    /\ UNCHANGED <<sg, dbVars, engineVars>>

\* process_link raises within the timeout: future.result re-raises it.
AttemptRaises ==
    /\ pl.pc = "wait"
    /\ pl.attempt = "running"
    /\ \E kind \in FailureKinds :
          pl' = [pl EXCEPT !.pc = "except", !.attempt = "none",
                           !.hist = Append(@, kind)]
    /\ UNCHANGED <<sg, dbVars, engineVars>>

\* AttemptTimesOut with the TimeoutError going straight to the handler: the
\* executor is left without waiting for its process_link call.
AttemptTimesOutNoWait ==
    /\ pl.pc = "wait"
    /\ pl.attempt \in {"running", "hung"}
    /\ pl' = [pl EXCEPT !.pc = "except", !.hist = Append(@, "timeout")]
    /\ UNCHANGED <<sg, dbVars, engineVars>>

\* future.result(timeout=timeout) raises TimeoutError; leaving the with
\* block then calls executor.shutdown(wait=True).
AttemptTimesOut ==
    /\ pl.pc = "wait"
    /\ pl.attempt \in {"running", "hung"}
    /\ pl' = [pl EXCEPT !.pc = "exit", !.hist = Append(@, "timeout")]
    /\ UNCHANGED <<sg, dbVars, engineVars>>

\* The timed-out process_link call ends at last, shutdown(wait=True) returns
\* and the TimeoutError reaches the handler.
AttemptEndsLate ==
    /\ pl.pc = "exit"
    /\ pl.attempt = "running"
    /\ pl' = [pl EXCEPT !.pc = "except", !.attempt = "none"]
    /\ UNCHANGED <<sg, dbVars, engineVars>>

\* RunnerExcept with the test of retry_count made before the increment.
RunnerExceptTestsBeforeIncrement ==
    /\ pl.pc = "except"
    /\ pl' = [pl EXCEPT !.retry_count = @ + 1,
                        !.pc = IF pl.retry_count = pl.max_retries
                               THEN "raised" ELSE "sleep"]
    /\ UNCHANGED <<sg, dbVars, engineVars>>

\* RunnerExcept giving up at once on a failure of kind "fatal".
RunnerExceptStopsOnFatal ==
    /\ pl.pc = "except"
    /\ pl' = [pl EXCEPT !.retry_count = @ + 1,
                        !.pc = IF \/ pl.retry_count + 1 = pl.max_retries
                                  \/ pl.hist[Len(pl.hist)] = "fatal"
                               THEN "raised" ELSE "sleep"]
    /\ UNCHANGED <<sg, dbVars, engineVars>>

\* except Exception as e: retry_count += 1; if retry_count == max_retries: raise
RunnerExcept ==
    /\ pl.pc = "except"
    /\ pl' = [pl EXCEPT !.retry_count = @ + 1,
                        !.pc = IF pl.retry_count + 1 = pl.max_retries
                               THEN "raised" ELSE "sleep"]
    /\ UNCHANGED <<sg, dbVars, engineVars>>

\* time.sleep(5)
RunnerSleep ==
    /\ pl.pc = "sleep"
    /\ pl' = [pl EXCEPT !.sleeps = @ + 1, !.pc = "loop"]
    /\ UNCHANGED <<sg, dbVars, engineVars>>

(***************************************************************************)
(* WebDriverPool.                                                          *)
(***************************************************************************)
RECURSIVE SeqOfDrivers(_)
\* for _ in range(max_size): self.available_drivers.put(self.create_driver())
SeqOfDrivers(n) == IF n = 0 THEN <<>> ELSE Append(SeqOfDrivers(n - 1), n)

\* WebDriverPool.__init__: Queue(maxsize=max_size) filled with max_size new
\* drivers, Semaphore(max_size).
PoolInit ==
    /\ available_drivers = SeqOfDrivers(max_size)
    /\ semaphore = max_size
    /\ quit_count = [d \in 1..max_size |-> 0]

\* Queue.put blocks while the queue holds maxsize items.
QueueFull(q) == Len(q) >= max_size

(***************************************************************************)
(* Tasks. task[u] is the task the executor holds for target u:             *)
(*   kind   "none", "url" (scrape_url) or "leaf" (scrape_manylawsections)  *)
(*   pc     "none", "queued", "check", "acquire", "get", "work", "put",    *)
(*          "release", "done"                                              *)
(*   driver the local `driver` (0: None)                                   *)
(*   depth  the number of nested calls scrape_manylawsections has made to  *)
(*          itself and not yet returned from                               *)
(*   gets   the number of handles get_driver has returned to the task      *)
(*   rels   the number of release_driver calls that have put a driver back *)
(*   exc    whether the task's future holds an exception                   *)
(*   outer  scrape2.py: the drivers held by the calls of                   *)
(*          scrape_manylawsections that wait for a nested call             *)
(*   sub    scrape2.py: the process_link call the task has submitted to    *)
(*          its own executor: pc "none", "acquire", "get", "work", "put",  *)
(*          "release", "done"; its local driver; whether it raised         *)
(*   late   history: the task called get_driver after quit_all_drivers had *)
(*          run                                                            *)
(*   caught history: the task was blocked in get_driver when stop_event    *)
(*          was set                                                        *)
(***************************************************************************)
NoSub == [pc |-> "none", driver |-> 0, exc |-> FALSE]

NoTask ==
    [kind |-> "none", pc |-> "none", driver |-> 0, depth |-> 0, gets |-> 0,
     rels |-> 0, exc |-> FALSE, outer |-> <<>>, sub |-> NoSub,
     late |-> FALSE, caught |-> FALSE]

Submitted(k) ==
    [kind |-> k, pc |-> "queued", driver |-> 0, depth |-> 0, gets |-> 0,
     rels |-> 0, exc |-> FALSE, outer |-> <<>>, sub |-> NoSub,
     late |-> FALSE, caught |-> FALSE]

Running(u) == task[u].pc \notin {"none", "queued", "done"}

\* The slot of scrape_manylawsections(u). In scrape.py the leaf tasks are
\* submitted after the last scrape_url future was consumed (line 344), and
\* the task of u takes the place of scrape_url(u).
LeafSlot(u) == IF engine = "scrape2" THEN u + NumTargets ELSE u

\* A worker thread of the executor takes the work item off the queue.
\* scrape_manylawsections starts with driver=None and goes to get_driver.
\* scrape.py has one executor of MaxWorkers threads for all tasks;
\* scrape2.py has self.executor for scrape_url and self.manylaw_executor
\* for scrape_manylawsections, of one thread each.
WorkerFree(k) ==
    IF engine = "scrape"
    THEN Cardinality({v \in Slots : Running(v)}) < MaxWorkers
    ELSE Cardinality({v \in Slots : Running(v) /\ task[v].kind = k})
            < Scrape2Workers

TaskStart(u) ==
    /\ task[u].pc = "queued"
    /\ WorkerFree(task[u].kind)
    /\ task' = IF task[u].kind = "url"
               THEN [task EXCEPT ![u].pc = "check"]
               ELSE [task EXCEPT ![u].pc = "acquire",
                                 ![u].late = (sigpc = "done")]
    /\ UNCHANGED <<sg, pl, dbVars, configVars, poolVars, stop_event, executor_shutdown, sigpc,
                   crawlVars>>

\* scrape_url: if self.stop_event.is_set(): return set(), set()
ScrapeUrlCheck(u) ==
    /\ task[u].kind = "url"
    /\ task[u].pc = "check"
    /\ task' = IF stop_event
               THEN [task EXCEPT ![u].pc = "done"]
               ELSE [task EXCEPT ![u].pc = "acquire",
                                 ![u].late = (sigpc = "done")]
    /\ UNCHANGED <<sg, pl, dbVars, configVars, poolVars, stop_event, executor_shutdown, sigpc,
                   crawlVars>>

\* GetDriverAcquire without the permit: get_driver goes to the queue at once.
GetDriverAcquireNoPermit(u) ==
    /\ task[u].pc = "acquire"
    /\ task' = [task EXCEPT ![u].pc = "get"]
    /\ UNCHANGED <<sg, pl, dbVars, configVars, poolVars, stop_event,
                   executor_shutdown, sigpc, crawlVars>>

\* get_driver: self.semaphore.acquire()
GetDriverAcquire(u) ==
    /\ task[u].pc = "acquire"
    /\ semaphore > 0
    /\ semaphore' = semaphore - 1
    /\ task' = [task EXCEPT ![u].pc = "get"]
    /\ UNCHANGED <<sg, pl, dbVars, configVars, available_drivers, quit_count, stop_event,
                   executor_shutdown, sigpc, crawlVars>>

\* get_driver: return self.available_drivers.get()
GetDriverGet(u) ==
    /\ task[u].pc = "get"
    /\ available_drivers # <<>>
    /\ available_drivers' = Tail(available_drivers)
    /\ task' = [task EXCEPT ![u].pc = "work",
                            ![u].driver = Head(available_drivers),
                            ![u].gets = @ + 1]
    /\ UNCHANGED <<sg, pl, dbVars, configVars, semaphore, quit_count, stop_event,
                   executor_shutdown, sigpc, crawlVars>>

\* scrape_url: the try block (safe_get, extract_links, find_elements); an
\* exception leaves through the finally clause and stays in the future.
ScrapeUrlWork(u) ==
    /\ task[u].kind = "url"
    /\ task[u].pc = "work"
    /\ \E raised \in BOOLEAN :
          task' = [task EXCEPT ![u].pc = "put", ![u].exc = raised]
    /\ UNCHANGED <<sg, pl, dbVars, configVars, poolVars, stop_event, executor_shutdown, sigpc,
                   crawlVars>>

\* scrape_manylawsections (scrape.py): the try block; on an exception the
\* handler calls self.scrape_manylawsections(url, driver), which skips
\* get_driver. At the recursion limit the call itself raises inside the
\* handler and control goes to the finally clause.
LeafWork(u) ==
    /\ engine = "scrape"
    /\ task[u].kind = "leaf"
    /\ task[u].pc = "work"
    /\ \E raised \in BOOLEAN :
          IF raised /\ task[u].depth < MaxDepth
          THEN task' = [task EXCEPT ![u].depth = @ + 1]
          ELSE task' = [task EXCEPT ![u].pc = "put"]
    /\ UNCHANGED <<sg, pl, dbVars, configVars, poolVars, stop_event, executor_shutdown, sigpc,
                   crawlVars>>

\* scrape2.py, the handler of scrape_manylawsections: the call
\* self.scrape_manylawsections(url) starts with get_driver while the caller
\* keeps its own driver. At the recursion limit the call raises inside the
\* handler and the finally clause is next.
Retry2(u) ==
    IF task[u].depth < MaxDepth
    THEN [task EXCEPT ![u].depth = @ + 1,
                      ![u].outer = Append(@, task[u].driver),
                      ![u].driver = 0,
                      ![u].sub = NoSub,
                      ![u].pc = "acquire"]
    ELSE [task EXCEPT ![u].sub = NoSub, ![u].pc = "put"]

\* scrape_manylawsections (scrape2.py): the try block up to the executor:
\* safe_get, the wait, find_elements; then process_link is submitted to a
\* ThreadPoolExecutor of its own for the link of the page.
LeafWork2(u) ==
    /\ engine = "scrape2"
    /\ task[u].kind = "leaf"
    /\ task[u].pc = "work"
    /\ \E raised \in BOOLEAN :
          task' = IF raised
                  THEN Retry2(u)
                  ELSE [task EXCEPT ![u].pc = "subwait",
                                    ![u].sub = [NoSub EXCEPT !.pc = "acquire"]]
    /\ UNCHANGED <<sg, pl, dbVars, configVars, poolVars, stop_event,
                   executor_shutdown, sigpc, crawlVars>>

\* process_link (scrape2.py): driver = self.driver_pool.get_driver(), first
\* self.semaphore.acquire()
SubAcquire(u) ==
    /\ task[u].sub.pc = "acquire"
    /\ semaphore > 0
    /\ semaphore' = semaphore - 1
    /\ task' = [task EXCEPT ![u].sub.pc = "get"]
    /\ UNCHANGED <<sg, pl, dbVars, configVars, available_drivers, quit_count,
                   stop_event, executor_shutdown, sigpc, crawlVars>>

\* process_link (scrape2.py): ... return self.available_drivers.get()
SubGet(u) ==
    /\ task[u].sub.pc = "get"
    /\ available_drivers # <<>>
    /\ available_drivers' = Tail(available_drivers)
    /\ task' = [task EXCEPT ![u].sub.pc = "work",
                            ![u].sub.driver = Head(available_drivers)]
    /\ UNCHANGED <<sg, pl, dbVars, configVars, semaphore, quit_count,
                   stop_event, executor_shutdown, sigpc, crawlVars>>

\* process_link (scrape2.py): the try block, whose handler logs; when the
\* exception came before result (or current_url) was bound, the handler or
\* the return statement raises after the finally clause.
SubWork(u) ==
    /\ task[u].sub.pc = "work"
    /\ \E raised \in BOOLEAN :
          task' = [task EXCEPT ![u].sub.pc = "put", ![u].sub.exc = raised]
    /\ UNCHANGED <<sg, pl, dbVars, configVars, poolVars, stop_event,
                   executor_shutdown, sigpc, crawlVars>>

\* process_link (scrape2.py), finally: release_driver, first the put
SubPut(u) ==
    /\ task[u].sub.pc = "put"
    /\ ~QueueFull(available_drivers)
    /\ available_drivers' = Append(available_drivers, task[u].sub.driver)
    /\ task' = [task EXCEPT ![u].sub.pc = "release"]
    /\ UNCHANGED <<sg, pl, dbVars, configVars, semaphore, quit_count,
                   stop_event, executor_shutdown, sigpc, crawlVars>>

\* process_link (scrape2.py), finally: ... self.semaphore.release()
SubRelease(u) ==
    /\ task[u].sub.pc = "release"
    /\ semaphore' = semaphore + 1
    /\ task' = [task EXCEPT ![u].sub.pc = "done"]
    /\ UNCHANGED <<sg, pl, dbVars, configVars, available_drivers, quit_count,
                   stop_event, executor_shutdown, sigpc, crawlVars>>

\* scrape_manylawsections (scrape2.py): result = future.result() re-raises
\* what process_link raised, and the handler retries; else insert_law_entry
\* and the finally clause.
LeafCollectSub(u) ==
    /\ task[u].pc = "subwait"
    /\ task[u].sub.pc = "done"
    /\ task' = IF task[u].sub.exc
               THEN Retry2(u)
               ELSE [task EXCEPT ![u].sub = NoSub, ![u].pc = "put"]
    /\ UNCHANGED <<sg, pl, dbVars, configVars, poolVars, stop_event,
                   executor_shutdown, sigpc, crawlVars>>

\* release_driver: self.available_drivers.put(driver)
ReleaseDriverPut(u) ==
    /\ task[u].pc = "put"
    /\ ~QueueFull(available_drivers)
    /\ available_drivers' = Append(available_drivers, task[u].driver)
    /\ task' = [task EXCEPT ![u].pc = "release", ![u].rels = @ + 1]
    /\ UNCHANGED <<sg, pl, dbVars, configVars, semaphore, quit_count, stop_event,
                   executor_shutdown, sigpc, crawlVars>>

\* release_driver: self.semaphore.release(); then the finally clause ends:
\* a nested scrape_manylawsections returns into its caller's handler, whose
\* own finally clause comes next and releases the caller's driver (in
\* scrape.py the same driver once more); the outermost call ends the task.
ReleaseDriverSemaphore(u) ==
    /\ task[u].pc = "release"
    /\ semaphore' = semaphore + 1
    /\ task' = IF task[u].depth = 0
               THEN [task EXCEPT ![u].pc = "done"]
               ELSE IF engine = "scrape"
               THEN [task EXCEPT ![u].depth = @ - 1, ![u].pc = "put"]
               ELSE [task EXCEPT ![u].depth = @ - 1,
                                 ![u].driver = task[u].outer[Len(task[u].outer)],
                                 ![u].outer = SubSeq(@, 1, Len(@) - 1),
                                 ![u].pc = "put"]
    /\ UNCHANGED <<sg, pl, dbVars, configVars, available_drivers, quit_count, stop_event,
                   executor_shutdown, sigpc, crawlVars>>

\* Task u is blocked in get_driver: in semaphore.acquire() with no permit
\* left, or in available_drivers.get() with the queue empty.
BlockedInGetDriver(u) ==
    \/ task[u].pc = "acquire" /\ semaphore = 0
    \/ task[u].pc = "get" /\ available_drivers = <<>>

(***************************************************************************)
(* SeleniumScraper.signal_handler, run on the main thread when SIGINT      *)
(* arrives. sigpc: "idle", "shutdown", "empty", "get", "done".             *)
(***************************************************************************)
\* self.stop_event.set()
SignalSetStop ==
    /\ sigpc = "idle"
    /\ mainpc \notin {"returned", "raised"}
    /\ stop_event' = TRUE
    /\ sigpc' = "shutdown"
    /\ task' = [u \in Slots |->
                   [task[u] EXCEPT !.caught = BlockedInGetDriver(u)]]
    /\ UNCHANGED <<sg, pl, dbVars, configVars, poolVars, executor_shutdown, crawlVars>>

\* self.executor.shutdown(wait=False)
SignalShutdownExecutor ==
    /\ sigpc = "shutdown"
    /\ executor_shutdown' = TRUE
    /\ sigpc' = "empty"
    /\ UNCHANGED <<sg, pl, dbVars, configVars, poolVars, stop_event, task, crawlVars>>

\* quit_all_drivers: while not self.available_drivers.empty()
QuitAllEmpty ==
    /\ sigpc = "empty"
    /\ sigpc' = IF available_drivers = <<>> THEN "done" ELSE "get"
    /\ UNCHANGED <<sg, pl, dbVars, configVars, poolVars, stop_event, executor_shutdown, task,
                   crawlVars>>

\* quit_all_drivers: driver = self.available_drivers.get(); driver.quit()
QuitAllGet ==
    /\ sigpc = "get"
    /\ available_drivers # <<>>
    /\ available_drivers' = Tail(available_drivers)
    /\ quit_count' = [quit_count EXCEPT ![Head(available_drivers)] = @ + 1]
    /\ sigpc' = "empty"
    /\ UNCHANGED <<sg, pl, dbVars, configVars, semaphore, stop_event, executor_shutdown, task,
                   crawlVars>>

SignalHandler ==
    \/ SignalSetStop
    \/ SignalShutdownExecutor
    \/ QuitAllEmpty
    \/ QuitAllGet

(***************************************************************************)
(* The web site a run crawls: base_urls (the seeds), links[u] (the hrefs   *)
(* under #expandedbranchcodesid of page u) and leaves (the pages that hold *)
(* an element #manylawsections).                                           *)
(***************************************************************************)
\* One seed that links to every other page; page 2 is a leaf.
SiteTree ==
    [base_urls |-> {1},
     links |-> [u \in Targets |-> IF u = 1 THEN Targets \ {1} ELSE {}],
     leaves |-> {2}]

\* Page 2 links back to the seed.
SiteBackLink ==
    [base_urls |-> {1},
     links |-> [u \in Targets |-> IF u = 1 THEN {2} ELSE IF u = 2 THEN {1} ELSE {}],
     leaves |-> {2}]

\* Two seeds that link to the same page, which is a leaf.
SiteShared ==
    [base_urls |-> {1, 2},
     links |-> [u \in Targets |-> IF u \in {1, 2} THEN {3} ELSE {}],
     leaves |-> {3}]

\* Every page is a seed and a leaf.
SiteAllLeaves ==
    [base_urls |-> Targets, links |-> [u \in Targets |-> {}], leaves |-> Targets]

\* The seed is a leaf, and page 2 links back to it: scrape_url reports the
\* same leaf URL in the first wave and in the third.
SiteLeafSeed ==
    [base_urls |-> {1},
     links |-> [u \in Targets |-> IF u = 1 THEN {2} ELSE IF u = 2 THEN {1} ELSE {}],
     leaves |-> {1}]

Sites == {SiteTree, SiteBackLink, SiteShared, SiteLeafSeed}

\* What scrape_url(u) returns: (set(), set()) when it saw the stop flag,
\* else (expanded_links, manylaw_links).
ExpandedLinks(u) == IF task[u].gets = 0 THEN {} ELSE site.links[u]

ManylawLinks(u) ==
    IF task[u].gets > 0 /\ u \in site.leaves THEN {u} ELSE {}

(***************************************************************************)
(* CaliforniaScraper.start_scraping (scrape.py), on the main thread, which *)
(* stands still while signal_handler runs. mainpc: "init", "while",        *)
(* "submit", "collect", "leaf_submit", "leaf_collect", "join", "returned", *)
(* "raised".                                                               *)
(***************************************************************************)
MainRuns == sigpc \in {"idle", "done"}

\* urls_to_scrape = self.base_urls; timer_thread.start()
MainInit ==
    /\ MainRuns
    /\ mainpc = "init"
    /\ urls_to_scrape' = site.base_urls
    /\ timerpc' = "running"
    /\ mainpc' = "while"
    /\ UNCHANGED <<sg, pl, dbVars, configVars, poolVars, stop_event, executor_shutdown, sigpc, task,
                   site, main_error, to_submit, futures, visited_links,
                   law_section_links, processed_manylaw_links, submit_count,
                   leaf_submit_count>>

\* while urls_to_scrape: enter the dict comprehension of line 324; after the
\* loop, scrape.py goes to the one of line 344 over self.law_section_links
\* and scrape2.py to the loop of line 521 that waits for manylaw_futures.
MainWhile ==
    /\ MainRuns
    /\ mainpc = "while"
    /\ IF urls_to_scrape # {}
       THEN mainpc' = "submit" /\ to_submit' = urls_to_scrape
       ELSE IF engine = "scrape"
            THEN mainpc' = "leaf_submit" /\ to_submit' = law_section_links
            ELSE mainpc' = "wait" /\ UNCHANGED to_submit
    /\ UNCHANGED <<sg, pl, dbVars, configVars, poolVars, stop_event, executor_shutdown, sigpc, task,
                   site, main_error, timerpc, futures, urls_to_scrape,
                   visited_links, law_section_links, processed_manylaw_links, submit_count,
                   leaf_submit_count>>

\* self.executor.submit(self.scrape_url, url) for the next url of the wave;
\* submit raises RuntimeError once the executor is shut down. After the last
\* one, urls_to_scrape = [] and as_completed(futures) begins.
MainSubmit ==
    /\ MainRuns
    /\ mainpc = "submit"
    /\ \E u \in to_submit :
          IF executor_shutdown
          THEN /\ mainpc' = "raised"
               /\ main_error' = "shutdown"
               /\ UNCHANGED <<task, to_submit, futures, urls_to_scrape,
                              submit_count>>
          ELSE /\ task' = [task EXCEPT ![u] = Submitted("url")]
               /\ submit_count' = [submit_count EXCEPT ![u] = @ + 1]
               /\ to_submit' = to_submit \ {u}
               /\ IF to_submit = {u}
                  THEN /\ futures' = urls_to_scrape
                       /\ urls_to_scrape' = {}
                       /\ mainpc' = "collect"
                  ELSE UNCHANGED <<futures, urls_to_scrape, mainpc>>
               /\ UNCHANGED main_error
    /\ UNCHANGED <<sg, pl, dbVars, configVars, poolVars, stop_event, executor_shutdown, sigpc,
                   site, timerpc, visited_links, law_section_links,
                   processed_manylaw_links, leaf_submit_count>>

\* NewManylawLinks without the test of processed_manylaw_links.
NewManylawLinksUnguarded(u) ==
    IF engine = "scrape2" THEN ManylawLinks(u) ELSE {}

\* scrape2.py lines 514-518: a manylaw_link that is not in
\* processed_manylaw_links is submitted to manylaw_executor at once.
NewManylawLinks(u) ==
    IF engine = "scrape2" THEN ManylawLinks(u) \ processed_manylaw_links ELSE {}

\* MainCollect that leaves the loop with the first completed future and
\* goes back to the while test, not waiting for the rest of the wave.
MainCollectFirstCompleted ==
    /\ MainRuns
    /\ mainpc = "collect"
    /\ \E u \in futures :
          /\ task[u].pc = "done"
          /\ IF task[u].exc
             THEN /\ mainpc' = "raised"
                  /\ main_error' = "task"
                  /\ UNCHANGED <<futures, urls_to_scrape, visited_links,
                                 law_section_links, processed_manylaw_links,
                                 task, leaf_submit_count>>
             ELSE /\ task' = [v \in Slots |->
                                IF \E w \in NewManylawLinks(u) : v = LeafSlot(w)
                                THEN Submitted("leaf") ELSE task[v]]
                  /\ leaf_submit_count' =
                        [w \in Targets |->
                            IF w \in NewManylawLinks(u)
                            THEN leaf_submit_count[w] + 1
                            ELSE leaf_submit_count[w]]
                  /\ processed_manylaw_links' =
                        processed_manylaw_links \cup NewManylawLinks(u)
                  /\ law_section_links' =
                        law_section_links \cup (ManylawLinks(u) \ law_section_links)
                  /\ visited_links' =
                        visited_links \cup (ExpandedLinks(u) \ visited_links)
                  /\ urls_to_scrape' =
                        urls_to_scrape \cup (ExpandedLinks(u) \ visited_links)
                  /\ futures' = futures \ {u}
                  /\ mainpc' = "while"
                  /\ UNCHANGED main_error
    /\ UNCHANGED <<sg, pl, dbVars, configVars, poolVars, stop_event,
                   executor_shutdown, sigpc, site, timerpc, to_submit,
                   submit_count>>

\* for future in as_completed(futures): future.result() re-raises the
\* exception of scrape_url; else the body of lines 328-332 (scrape2.py:
\* 508-518). The loop ends with the last future.
MainCollect ==
    /\ MainRuns
    /\ mainpc = "collect"
    /\ \E u \in futures :
          /\ task[u].pc = "done"
          /\ IF task[u].exc
             THEN /\ mainpc' = "raised"
                  /\ main_error' = "task"
                  /\ UNCHANGED <<futures, urls_to_scrape, visited_links,
                                 law_section_links, processed_manylaw_links,
                                 task, leaf_submit_count>>
             ELSE /\ task' = [v \in Slots |->
                                IF \E w \in NewManylawLinks(u) : v = LeafSlot(w)
                                THEN Submitted("leaf") ELSE task[v]]
                  /\ leaf_submit_count' =
                        [w \in Targets |->
                            IF w \in NewManylawLinks(u)
                            THEN leaf_submit_count[w] + 1
                            ELSE leaf_submit_count[w]]
                  /\ processed_manylaw_links' =
                        processed_manylaw_links \cup NewManylawLinks(u)
                  /\ law_section_links' =
                        law_section_links \cup (ManylawLinks(u) \ law_section_links)
                  /\ visited_links' =
                        visited_links \cup (ExpandedLinks(u) \ visited_links)
                  /\ urls_to_scrape' =
                        urls_to_scrape \cup (ExpandedLinks(u) \ visited_links)
                  /\ futures' = futures \ {u}
                  /\ mainpc' = IF futures = {u} THEN "while" ELSE "collect"
                  /\ UNCHANGED main_error
    /\ UNCHANGED <<sg, pl, dbVars, configVars, poolVars, stop_event,
                   executor_shutdown, sigpc, site, timerpc, to_submit,
                   submit_count>>

\* self.executor.submit(self.scrape_manylawsections, url) for the next url of
\* self.law_section_links; with none left (or none at all) as_completed begins.
MainLeafSubmit ==
    /\ MainRuns
    /\ mainpc = "leaf_submit"
    /\ IF to_submit = {}
       THEN /\ mainpc' = "leaf_collect"
            /\ futures' = law_section_links
            /\ UNCHANGED <<task, to_submit, main_error, leaf_submit_count>>
       ELSE \E u \in to_submit :
               IF executor_shutdown
               THEN /\ mainpc' = "raised"
                    /\ main_error' = "shutdown"
                    /\ UNCHANGED <<task, to_submit, futures, leaf_submit_count>>
               ELSE /\ task' = [task EXCEPT ![LeafSlot(u)] = Submitted("leaf")]
                    /\ leaf_submit_count' =
                          [leaf_submit_count EXCEPT ![u] = @ + 1]
                    /\ to_submit' = to_submit \ {u}
                    /\ UNCHANGED <<mainpc, main_error, futures>>
    /\ UNCHANGED <<sg, pl, dbVars, configVars, poolVars, stop_event, executor_shutdown, sigpc,
                   site, timerpc, urls_to_scrape, visited_links,
                   law_section_links, processed_manylaw_links, submit_count>>

\* for future in as_completed(futures): future_url = future.result(); the
\* finally clause of scrape_manylawsections returns, so nothing is raised.
\* With no future left the loop ends and timer_thread.join() is next.
MainLeafCollect ==
    /\ MainRuns
    /\ mainpc = "leaf_collect"
    /\ IF futures = {}
       THEN mainpc' = "join" /\ UNCHANGED futures
       ELSE /\ \E u \in futures :
                  /\ task[LeafSlot(u)].pc = "done"
                  /\ futures' = futures \ {u}
            /\ UNCHANGED mainpc
    /\ UNCHANGED <<sg, pl, dbVars, configVars, poolVars, stop_event, executor_shutdown, sigpc, task,
                   site, main_error, timerpc, to_submit, urls_to_scrape,
                   visited_links, law_section_links, processed_manylaw_links, submit_count,
                   leaf_submit_count>>

\* scrape2.py lines 521-529: while not self.stop_event.is_set(): leave the
\* loop when no future of manylaw_futures is still running, else sleep.
MainWaitLeaves ==
    /\ MainRuns
    /\ mainpc = "wait"
    /\ \/ stop_event
       \/ \A u \in Slots : task[u].kind = "leaf" => task[u].pc = "done"
    /\ mainpc' = "leaf_shutdown"
    /\ UNCHANGED <<sg, pl, dbVars, configVars, poolVars, stop_event,
                   executor_shutdown, sigpc, task, site, main_error, timerpc,
                   to_submit, futures, urls_to_scrape, visited_links,
                   law_section_links, processed_manylaw_links, submit_count,
                   leaf_submit_count>>

\* scrape2.py line 532: self.manylaw_executor.shutdown(wait=True) returns
\* when every task given to manylaw_executor has ended.
MainShutdownLeaves ==
    /\ MainRuns
    /\ mainpc = "leaf_shutdown"
    /\ \A u \in Slots : task[u].kind = "leaf" => task[u].pc = "done"
    /\ mainpc' = "join"
    /\ UNCHANGED <<sg, pl, dbVars, configVars, poolVars, stop_event,
                   executor_shutdown, sigpc, task, site, main_error, timerpc,
                   to_submit, futures, urls_to_scrape, visited_links,
                   law_section_links, processed_manylaw_links, submit_count,
                   leaf_submit_count>>

\* MainJoin with the flag cleared, not set, when start_scraping ends.
MainJoinClearsStop ==
    /\ MainRuns
    /\ mainpc = "join"
    /\ timerpc = "done"
    /\ stop_event' = FALSE
    /\ mainpc' = "returned"
    /\ UNCHANGED <<sg, pl, dbVars, configVars, poolVars, executor_shutdown, sigpc, task, site,
                   main_error, timerpc, to_submit, futures, urls_to_scrape,
                   visited_links, law_section_links, processed_manylaw_links, submit_count,
                   leaf_submit_count>>

\* timer_thread.join() returns when display_timer has ended; then
\* self.stop_event.set() and start_scraping returns.
MainJoin ==
    /\ MainRuns
    /\ mainpc = "join"
    /\ timerpc = "done"
    /\ stop_event' = TRUE
    /\ mainpc' = "returned"
    /\ UNCHANGED <<sg, pl, dbVars, configVars, poolVars, executor_shutdown, sigpc, task, site,
                   main_error, timerpc, to_submit, futures, urls_to_scrape,
                   visited_links, law_section_links, processed_manylaw_links, submit_count,
                   leaf_submit_count>>

\* display_timer: while not self.stop_event.is_set(): print ...; time.sleep(1)
DisplayTimer ==
    /\ timerpc = "running"
    /\ timerpc' = IF stop_event THEN "done" ELSE "running"
    /\ UNCHANGED <<sg, pl, dbVars, configVars, poolVars, stop_event, executor_shutdown, sigpc, task,
                   site, mainpc, main_error, to_submit, futures,
                   urls_to_scrape, visited_links, law_section_links, processed_manylaw_links,
                   submit_count, leaf_submit_count>>

Main ==
    \/ MainInit
    \/ MainWhile
    \/ MainSubmit
    \/ MainCollect
    \/ MainLeafSubmit
    \/ MainLeafCollect
    \/ MainJoin

\* start_scraping of scrape2.py.
Main2 ==
    \/ MainInit
    \/ MainWhile
    \/ MainSubmit
    \/ MainCollect
    \/ MainWaitLeaves
    \/ MainShutdownLeaves
    \/ MainJoin

(***************************************************************************)
(* SeleniumScraper.insert_law_entry and db.execute_sql over the table      *)
(* law_entries. A record is the result dict of process_link, of which the  *)
(* columns url and text (result['URL'], result['Law']) matter here;        *)
(* result['Law'] stays None when the page has no law text or when          *)
(* process_link caught an exception before it came to it. ins[t]:          *)
(*   pc       "idle", "select", "insert", "count", "returned"              *)
(*   key      the (url, law) of the call's result                          *)
(*   existing whether the existence check returned a row                   *)
(*   rows_before, n_before  history: the rows of the key and               *)
(*            n_entries_added when the call began                          *)
(*   alone    history: no other insert_law_entry ran during the call       *)
(*   sqlerr   history: an execute_sql of the call met sqlite3.Error        *)
(***************************************************************************)
\* Two worker threads of the executor, each running a leaf task.
Inserters == {"t1", "t2"}
Urls == 1..NumUrls
NoLaw == "None"
Laws == {NoLaw, "law"}
Keys == [url : Urls, law : Laws]

InsertIdle ==
    [pc |-> "idle", key |-> [url |-> 1, law |-> NoLaw], existing |-> FALSE,
     rows_before |-> 0, n_before |-> 0, alone |-> TRUE, sqlerr |-> FALSE]

\* SELECT url, text FROM law_entries WHERE url = ? AND text = ? LIMIT 1, with
\* fetchone: a row, or None. In SQL a comparison with NULL is never true, so
\* a parameter text of None matches no row.
SelectExisting(k) == k.law # NoLaw /\ law_entries[k] > 0

\* execute_sql catches sqlite3.Error, prints it and returns None.
SqlOutcomes == {"ok", "error"}

\* A leaf task calls self.insert_law_entry(self.db_file, result).
InsertLawEntry(t, k) ==
    /\ ins[t].pc = "idle"
    /\ calls < MaxCalls
    /\ k \in records
    /\ ins' = [x \in Inserters |->
                 IF x = t
                 THEN [pc |-> "select", key |-> k, existing |-> FALSE,
                       rows_before |-> law_entries[k],
                       n_before |-> n_entries_added,
                       alone |-> \A y \in Inserters \ {t} : ins[y].pc = "idle",
                       sqlerr |-> FALSE]
                 ELSE [ins[x] EXCEPT !.alone = FALSE]]
    /\ calls' = calls + 1
    /\ processed' = processed \cup {k}
    /\ UNCHANGED <<sg, pl, engineVars, law_entries, n_entries_added, run,
                   records>>

\* existing_entry = db.execute_sql(conn, check_sql, ..., fetchone=True);
\* if existing_entry: logging.error("... Duplicate entry ...")
ExecuteSelect(t) ==
    /\ ins[t].pc = "select"
    /\ \E outcome \in SqlOutcomes :
          LET found == outcome = "ok" /\ SelectExisting(ins[t].key)
          IN  ins' = [ins EXCEPT ![t].existing = found,
                                 ![t].sqlerr = (outcome = "error"),
                                 ![t].pc = IF found THEN "returned" ELSE "insert"]
    /\ UNCHANGED <<sg, pl, engineVars, law_entries, n_entries_added, run,
                   calls, processed, records>>

\* ExecuteInsert as one statement that inserts only when no row of the key
\* is in the table: the check and the insert made atomic.
ExecuteInsertUnlessPresent(t) ==
    /\ ins[t].pc = "insert"
    /\ \E outcome \in SqlOutcomes :
          /\ law_entries' = IF outcome = "ok" /\ ~SelectExisting(ins[t].key)
                            THEN [law_entries EXCEPT ![ins[t].key] = @ + 1]
                            ELSE law_entries
          /\ ins' = [ins EXCEPT ![t].pc = "count",
                                ![t].sqlerr = @ \/ outcome = "error"]
    /\ UNCHANGED <<sg, pl, engineVars, n_entries_added, run, calls, processed,
                   records>>

\* db.execute_sql(conn, insert_row_sql, law_entry_tuple, commit=True)
ExecuteInsert(t) ==
    /\ ins[t].pc = "insert"
    /\ \E outcome \in SqlOutcomes :
          /\ law_entries' = IF outcome = "ok"
                            THEN [law_entries EXCEPT ![ins[t].key] = @ + 1]
                            ELSE law_entries
          /\ ins' = [ins EXCEPT ![t].pc = "count",
                                ![t].sqlerr = @ \/ outcome = "error"]
    /\ UNCHANGED <<sg, pl, engineVars, n_entries_added, run, calls, processed,
                   records>>

\* with self.n_entries_lock: self.n_entries_added += 1
CountEntry(t) ==
    /\ ins[t].pc = "count"
    /\ n_entries_added' = n_entries_added + 1
    /\ ins' = [ins EXCEPT ![t].pc = "returned"]
    /\ UNCHANGED <<sg, pl, engineVars, law_entries, run, calls, processed,
                   records>>

\* conn.close() and the return to the leaf task.
InsertReturns(t) ==
    /\ ins[t].pc = "returned"
    /\ ins' = [ins EXCEPT ![t].pc = "idle"]
    /\ UNCHANGED <<sg, pl, engineVars, law_entries, n_entries_added, run,
                   calls, processed, records>>

\* The first run has handed every record to insert_law_entry and ended; a
\* new scraper (n_entries_added = 0) is started on the same db_file and the
\* same base_urls.
SecondRun ==
    /\ run = 1
    /\ processed = records
    /\ \A t \in Inserters : ins[t].pc = "idle"
    /\ run' = 2
    /\ n_entries_added' = 0
    /\ calls' = 0
    /\ processed' = {}
    /\ UNCHANGED <<sg, pl, engineVars, law_entries, ins, records>>

\* db.create_database(db_file) and SeleniumScraper.__init__.
DbInit ==
    /\ law_entries = [k \in Keys |-> 0]
    /\ n_entries_added = 0
    /\ ins = [t \in Inserters |-> InsertIdle]
    /\ run = 1
    /\ calls = 0
    /\ processed = {}

DbIdle ==
    /\ DbInit
    /\ records = {}

(***************************************************************************)
(* Specifications of the engine. Both are whole runs of start_scraping     *)
(* from the state the constructors leave, with at most one SIGINT.         *)
(***************************************************************************)
\* SeleniumScraper.__init__ and CaliforniaScraper.__init__.
ScraperState ==
    /\ PoolInit
    /\ processed_manylaw_links = {}
    /\ stop_event = FALSE
    /\ executor_shutdown = FALSE
    /\ sigpc = "idle"
    /\ task = [u \in Slots |-> NoTask]
    /\ mainpc = "init"
    /\ main_error = "none"
    /\ timerpc = "none"
    /\ to_submit = {}
    /\ futures = {}
    /\ urls_to_scrape = {}
    /\ visited_links = {}
    /\ law_section_links = {}
    /\ submit_count = [u \in Targets |-> 0]
    /\ leaf_submit_count = [u \in Targets |-> 0]

\* scrape.py
ScraperInit ==
    /\ engine = "scrape"
    /\ max_size = PoolSize
    /\ ScraperState

\* scrape2.py, whose leaf processor takes a driver for itself and one for
\* process_link: run with pools of up to PoolSize + 1 drivers.
Scraper2Init ==
    /\ engine = "scrape2"
    /\ max_size \in 1..(PoolSize + 1)
    /\ ScraperState

EngineIdle ==
    /\ ScraperInit
    /\ site = SiteAllLeaves

TaskStep(u) ==
    \/ TaskStart(u)
    \/ ScrapeUrlCheck(u)
    \/ GetDriverAcquire(u)
    \/ GetDriverGet(u)
    \/ ScrapeUrlWork(u)
    \/ LeafWork(u)
    \/ ReleaseDriverPut(u)
    \/ ReleaseDriverSemaphore(u)

\* The tasks of scrape2.py.
TaskStep2(u) ==
    \/ TaskStart(u)
    \/ ScrapeUrlCheck(u)
    \/ GetDriverAcquire(u)
    \/ GetDriverGet(u)
    \/ ScrapeUrlWork(u)
    \/ LeafWork2(u)
    \/ SubAcquire(u)
    \/ SubGet(u)
    \/ SubWork(u)
    \/ SubPut(u)
    \/ SubRelease(u)
    \/ LeafCollectSub(u)
    \/ ReleaseDriverPut(u)
    \/ ReleaseDriverSemaphore(u)

NextCrawl2 ==
    \/ Main2
    \/ DisplayTimer
    \/ \E u \in Slots : TaskStep2(u)
    \/ SignalHandler

NextCrawl ==
    \/ Main
    \/ DisplayTimer
    \/ \E u \in Slots : TaskStep(u)
    \/ SignalHandler

\* A run over one of the sites of Sites.
InitCrawl ==
    /\ sg = SafeGetIdle
    /\ pl = RunnerIdle
    /\ DbIdle
    /\ ScraperInit
    /\ site \in Sites

SpecCrawl == InitCrawl /\ [][NextCrawl]_vars

\* A run of scrape2.py over one of the sites of Sites.
InitCrawl2 ==
    /\ sg = SafeGetIdle
    /\ pl = RunnerIdle
    /\ DbIdle
    /\ Scraper2Init
    /\ site \in Sites

SpecCrawl2 == InitCrawl2 /\ [][NextCrawl2]_vars

\* SpecCrawl2 with the fairness of the scheduler: the main thread, the timer
\* thread, the worker of each task (with the worker of its process_link
\* sub-task) and the handler once entered.
FairCrawl2 ==
    /\ SpecCrawl2
    /\ WF_vars(Main2)
    /\ WF_vars(DisplayTimer)
    /\ \A u \in Slots : WF_vars(TaskStep2(u))
    /\ WF_vars(SignalShutdownExecutor \/ QuitAllEmpty \/ QuitAllGet)

\* SpecCrawl with the fairness of the scheduler: every thread that can take
\* a step takes one (the main thread, the timer thread, each worker, and
\* signal_handler once it has begun); whether SIGINT arrives is left open.
FairCrawl ==
    /\ SpecCrawl
    /\ WF_vars(Main)
    /\ WF_vars(DisplayTimer)
    /\ \A u \in Slots : WF_vars(TaskStep(u))
    /\ WF_vars(SignalShutdownExecutor \/ QuitAllEmpty \/ QuitAllGet)

\* A run over the site whose pages are all seeds and leaves: as many tasks
\* at a time as the executor has workers, more than the pool has drivers.
InitSaturated ==
    /\ sg = SafeGetIdle
    /\ pl = RunnerIdle
    /\ DbIdle
    /\ ScraperInit
    /\ site = SiteAllLeaves

SpecSaturated == InitSaturated /\ [][NextCrawl]_vars

\* SpecSaturated with the fairness of the scheduler, as in FairCrawl.
FairSaturated ==
    /\ SpecSaturated
    /\ WF_vars(Main)
    /\ WF_vars(DisplayTimer)
    /\ \A u \in Slots : WF_vars(TaskStep(u))
    /\ WF_vars(SignalShutdownExecutor \/ QuitAllEmpty \/ QuitAllGet)

(***************************************************************************)
(* Specifications of the two retry loops, each run on every input.         *)
(***************************************************************************)
InitSafeGet ==
    /\ \E v \in SafeGetVariants, a \in 1..MaxAttempts : sg = SafeGetStart(v, a)
    /\ pl = RunnerIdle
    /\ DbIdle
    /\ EngineIdle

NextSafeGet ==
    \/ SafeGetLoop
    \/ SafeGetExcept
    \/ SafeGetSleep

SpecSafeGet == InitSafeGet /\ [][NextSafeGet]_vars

InitRunner ==
    /\ sg = SafeGetIdle
    /\ \E m \in 1..MaxRetries : pl = RunnerStart(m)
    /\ DbIdle
    /\ EngineIdle

NextRunner ==
    \/ RunnerSubmit
    \/ AttemptReturns
    \/ AttemptRaises
    \/ AttemptTimesOut
    \/ AttemptEndsLate
    \/ RunnerExcept
    \/ RunnerSleep

SpecRunner == InitRunner /\ [][NextRunner]_vars

\* The thread that runs process_link_with_timeout_and_retry is scheduled.
FairRunner == SpecRunner /\ WF_vars(NextRunner)

\* Both retry loops at work, each on a thread of the executor, while SIGINT
\* may arrive on the main thread.
InitRetryCancel ==
    /\ \E v \in SafeGetVariants, a \in 1..MaxAttempts : sg = SafeGetStart(v, a)
    /\ \E m \in 1..MaxRetries : pl = RunnerStart(m)
    /\ DbIdle
    /\ EngineIdle

NextRetryCancel ==
    \/ NextSafeGet
    \/ NextRunner
    \/ SignalHandler

SpecRetryCancel == InitRetryCancel /\ [][NextRetryCancel]_vars

(***************************************************************************)
(* Specification of the record store: two runs over the same db_file, each *)
(* handing the records of the site to insert_law_entry.                    *)
(***************************************************************************)
InitStore ==
    /\ sg = SafeGetIdle
    /\ pl = RunnerIdle
    /\ EngineIdle
    /\ DbInit
    /\ records \in SUBSET Keys \ {{}}

NextStore ==
    \/ \E t \in Inserters, k \in Keys : InsertLawEntry(t, k)
    \/ \E t \in Inserters : ExecuteSelect(t)
    \/ \E t \in Inserters : ExecuteInsert(t)
    \/ \E t \in Inserters : CountEntry(t)
    \/ \E t \in Inserters : InsertReturns(t)
    \/ SecondRun

SpecStore == InitStore /\ [][NextStore]_vars

(***************************************************************************)
(* The pool: claims C1, C2, C3, C10.                                       *)
(***************************************************************************)
\* Task u has obtained a handle from get_driver and not yet released it.
Holds(u) == task[u].gets > task[u].rels

CheckedOut == {u \in Slots : Holds(u)}

RECURSIVE SumOver(_, _)
SumOver(S, field) ==
    IF S = {} THEN 0
    ELSE LET u == CHOOSE x \in S : TRUE
         IN  (IF field = "gets" THEN task[u].gets ELSE task[u].rels)
             + SumOver(S \ {u}, field)

C2_ExclusiveHandle ==
    \A u, v \in CheckedOut : u # v => task[u].driver # task[v].driver

\* C3: release_driver is never called more often than get_driver has
\* returned a handle.
C3_ReleaseAtMostOncePerGet ==
    SumOver(Slots, "rels") <= SumOver(Slots, "gets")

\* C10: once the cancellation flag is set, no get_driver call returns a
\* handle: no step taken with stop_event set hands a driver to a task.
C10_NoAcquireAfterCancel ==
    [][stop_event => \A u \in Slots : task'[u].gets = task[u].gets]_vars

\* C11: a get_driver call made after quit_all_drivers has run fails with
\* PoolClosed: it has not been given a handle and it is not blocked.
C11_GetDriverFailsWhenClosed ==
    \A u \in Slots :
        task[u].late => (task[u].gets = 0 /\ ~BlockedInGetDriver(u))

\* C12: no task that was blocked in get_driver when the cancellation flag
\* was set stays in get_driver forever.
C12_BlockedGetDriverUnblocks ==
    \A u \in Slots :
        task[u].caught ~> (task[u].pc \notin {"acquire", "get"})

\* Every task the executor was given has ended.
TasksSettled == \A u \in Slots : task[u].pc \in {"none", "done"}

\* C13: once signal_handler has run quit_all_drivers and the in-flight
\* tasks have settled, every driver of the pool has been quit exactly once.
C13_EachDriverQuitOnce ==
    (sigpc = "done" /\ TasksSettled) =>
        \A d \in Drivers : quit_count[d] = 1

\* C20: a task that holds a handle it obtained from get_driver eventually
\* has returned it with release_driver. Stated for the runs in which no
\* SIGINT arrives.
C20_HandleEventuallyReleased ==
    [](sigpc = "idle") => \A u \in Slots : Holds(u) ~> ~Holds(u)

\* signal_handler has not come to its call of quit_all_drivers.
QuitNotInvoked == sigpc \in {"idle", "shutdown"}

\* C30: as long as quit_all_drivers has not been invoked, the semaphore has
\* no more permits than available_drivers has drivers, and a get_driver call
\* that has passed semaphore.acquire() finds a driver in the queue.
C30_PermitsNeverExceedDrivers ==
    QuitNotInvoked =>
        /\ semaphore <= Len(available_drivers)
        /\ \A u \in Slots :
              (task[u].pc = "get" \/ task[u].sub.pc = "get")
                  => available_drivers # <<>>

\* A task is between semaphore.acquire() and available_drivers.get() after
\* another task has used and released the driver, while a third task waits
\* for a permit.
C30_Witness ==
    /\ sigpc = "idle"
    /\ \E u \in Slots : \E v \in Slots \ {u} :
          /\ task[u].pc = "get"
          /\ task[v].pc = "done" /\ task[v].rels > 0
    /\ \E w \in Slots : task[w].pc = "acquire"

(***************************************************************************)
(* The frontier loop: claims C4, C5, C9.                                   *)
(***************************************************************************)
\* C4: start_scraping submits scrape_url(t) at most once per run, for every
\* target t.
C4_NoDoubleVisit == \A u \in Targets : submit_count[u] <= 1

\* C5: a run of start_scraping returns to its caller. Stated for the runs in
\* which no SIGINT arrives and no task raises: the frontier becomes empty,
\* the leaf tasks settle, and start_scraping returns.
C5_StartScrapingReturns ==
    [](sigpc = "idle" /\ main_error = "none") => <>(mainpc = "returned")

\* C9: the failure of a scrape_url task never aborts the run: start_scraping
\* does not end with the exception of a task.
C9_TaskFailureDoesNotAbort == main_error # "task"

\* start_scraping is past its last as_completed loop, or has raised.
RunOver == mainpc \in {"join", "returned", "raised"}

\* C16: seeds [A], A yields the links B and C, B is a leaf page, the fetch of
\* C fails (pages 1, 2, 3 of SiteTree), no SIGINT: when the run is over, A,
\* B and C are the visited set, B is the one leaf and the leaf processor
\* has processed it.
C16_PartialFailureScenario ==
    (/\ site = SiteTree
     /\ sigpc = "idle"
     /\ RunOver
     /\ task[3].exc
     /\ ~task[1].exc
     /\ ~task[2].exc) =>
        /\ visited_links = {1, 2, 3}
        /\ law_section_links = {2}
        /\ task[2].kind = "leaf"
        /\ task[2].pc = "done"

\* C17: stop_event, once set, is never cleared.
C17_StopEventMonotonic == [][stop_event => stop_event']_vars

\* SIGINT has been handled, the tasks have ended and start_scraping has
\* set the flag once more and returned.
C17_Witness ==
    /\ stop_event
    /\ sigpc = "done"
    /\ mainpc = "returned"
    /\ timerpc = "done"
    /\ \E u \in Slots : task[u].pc = "done"

\* C18: from the moment the first wave is scheduled, every seed is in the
\* visited set.
C18_SeedsVisitedAtFirstWave ==
    mainpc \notin {"init", "while"} => site.base_urls \subseteq visited_links

\* C19: once the cancellation flag is set, start_scraping submits no task:
\* no step taken with stop_event set puts a new task on an executor.
C19_NoSubmitAfterCancel ==
    [][stop_event =>
          \A u \in Slots : task'[u].pc = "queued" => task[u].pc = "queued"]_vars

\* C28: for every pool capacity the leaf processor of scrape2.py cannot
\* deadlock on the pool: a scrape_manylawsections call that keeps its handle
\* while its process_link sub-task acquires a further one always eventually
\* completes. Stated for the runs in which no SIGINT arrives.
C28_LeafNeverDeadlocksOnPool ==
    [](sigpc = "idle") =>
        \A u \in Slots :
            (task[u].kind = "leaf" /\ task[u].pc = "subwait")
                ~> (task[u].pc = "done")

\* C29: a task holds at most one handle at a time: no task is in get_driver
\* while it holds a handle it has not released.
C29_NoGetDriverWhileHolding ==
    \A u \in Slots : task[u].pc \in {"acquire", "get"} => ~Holds(u)

\* C27: scrape_manylawsections is submitted at most once for each leaf URL,
\* also when several scrape_url results report the same leaf URL.
C27_LeafSubmittedOnce == \A u \in Targets : leaf_submit_count[u] <= 1

\* scrape_url(1) ran twice, reported the leaf URL both times, and both
\* results have been consumed by start_scraping.
C27_Witness ==
    /\ site = SiteLeafSeed
    /\ submit_count[1] = 2
    /\ task[1].pc = "done" /\ task[1].gets > 0 /\ ~task[1].exc
    /\ mainpc = "wait"
    /\ leaf_submit_count[1] = 1

\* C21: scrape_manylawsections is executed at most once per leaf page: no
\* call of it is ever nested in another call for the same page.
C21_LeafExecutedOnce == \A u \in Slots : task[u].depth = 0

\* C22: waves are strictly sequential: while start_scraping submits the
\* scrape_url tasks of a wave, every scrape_url task that is not of this wave
\* has completed or failed.
C22_WavesSequential ==
    mainpc = "submit" =>
        \A v \in Targets \ (urls_to_scrape \ to_submit) :
            task[v].kind = "url" => task[v].pc = "done"

\* The second wave is being submitted after a first wave of two tasks.
C22_Witness ==
    /\ mainpc = "submit"
    /\ site = SiteShared
    /\ to_submit = {3}
    /\ task[1].pc = "done"
    /\ task[2].pc = "done"

(***************************************************************************)
(* The record store: claims C14, C15.                                      *)
(***************************************************************************)
\* C14: the second run over the store the first run left inserts no record:
\* its n_entries_added stays 0.
C14_SecondRunInsertsNothing == run = 2 => n_entries_added = 0

\* C15: an insert_law_entry call during which no other call ran: when the
\* key was in the store it took the duplicate branch and left the rows of
\* the key and n_entries_added as they were; when it was not, the key has
\* exactly one row and n_entries_added is one more.
C15_InsertFrame ==
    \A t \in Inserters :
        (ins[t].pc = "returned" /\ ins[t].alone) =>
            IF ins[t].rows_before > 0
            THEN /\ ins[t].existing
                 /\ law_entries[ins[t].key] = ins[t].rows_before
                 /\ n_entries_added = ins[t].n_before
            ELSE /\ law_entries[ins[t].key] = 1
                 /\ n_entries_added = ins[t].n_before + 1

\* C26: the existence check and the insert are not atomic. Two concurrent
\* insert_law_entry calls with the same key (URL, Law text) that began when
\* the store had no row of it and that both passed the existence check, with
\* no SQL error, leave two rows of the key and n_entries_added incremented
\* twice since either began; C26_Witness is the interleaving in which that happens.
C26_BothPassCheckThenDuplicate ==
    \A t \in Inserters : \A x \in Inserters \ {t} :
        (/\ ins[t].pc = "returned" /\ ins[x].pc = "returned"
         /\ ins[t].key = ins[x].key
         /\ ins[t].key.law # NoLaw
         /\ ins[t].rows_before = 0 /\ ins[x].rows_before = 0
         /\ ~ins[t].existing /\ ~ins[x].existing
         /\ ~ins[t].sqlerr /\ ~ins[x].sqlerr)
        => /\ law_entries[ins[t].key] = 2
           /\ n_entries_added >= ins[t].n_before + 2
           /\ n_entries_added >= ins[x].n_before + 2

\* Both calls have passed the existence check before either has inserted,
\* and both have returned: two rows of one key.
C26_Witness ==
    /\ ins["t1"].pc = "returned" /\ ins["t2"].pc = "returned"
    /\ ins["t1"].key = ins["t2"].key
    /\ ins["t1"].key.law # NoLaw
    /\ ~ins["t1"].existing /\ ~ins["t2"].existing
    /\ ~ins["t1"].sqlerr /\ ~ins["t2"].sqlerr
    /\ ins["t1"].rows_before = 0 /\ ins["t2"].rows_before = 0
    /\ law_entries[ins["t1"].key] = 2
    /\ n_entries_added = 2

(***************************************************************************)
(* The retry loops: claims C6, C7, C8.                                     *)
(***************************************************************************)
SafeGetSettled == sg.pc \in {"returned", "raised"}

RunnerSettled == pl.pc \in {"returned", "raised"}

AllFailed(hist) == \A i \in 1..Len(hist) : hist[i] # "ok"

\* C23: process_link_with_timeout_and_retry settles (returns or raises) on
\* every input, also when an attempt of process_link never completes: it
\* never waits indefinitely on an attempt that has hung.
C23_RunnerSettlesDespiteHang == <>RunnerSettled

\* C24: the attempts of one task are strictly sequential: whenever the
\* runner is at the loop test, in the handler or in the backoff sleep (from
\* where the next attempt is started) no earlier attempt of process_link is
\* still running, also after an attempt has timed out.
C24_AttemptsSequential ==
    pl.pc \in {"loop", "except", "sleep", "returned", "raised"} =>
        pl.attempt = "none"

\* A second attempt has been started after the first one timed out.
C24_Witness ==
    /\ pl.pc = "wait"
    /\ pl.started = 2
    /\ pl.hist = <<"timeout">>

\* C25: a retry loop that is in its backoff sleep when the cancellation flag
\* is set does not go on to another attempt.
C25_CancelAbortsBackoff ==
    [][/\ (stop_event /\ sg.pc = "sleep" => sg'.pc # "loop")
       /\ (stop_event /\ pl.pc = "sleep" => pl'.pc # "loop")]_vars

\* C6: safe_get, when every navigation attempt raises, has called get(url)
\* exactly `attempts` times with attempts-1 backoff sleeps and re-raises the
\* exception of the last attempt; when attempt k is the first to succeed it
\* has made exactly k calls (and k-1 sleeps) and returns normally.
C6_SafeGetRetryBound ==
    /\ sg.pc = "raised" =>
          /\ Len(sg.nav) = sg.attempts
          /\ sg.sleeps = sg.attempts - 1
          /\ sg.error = "nav"
    /\ sg.pc = "returned" =>
          /\ sg.nav[Len(sg.nav)] = "ok"
          /\ \A i \in 1..(Len(sg.nav) - 1) : sg.nav[i] = "err"
          /\ sg.sleeps = Len(sg.nav) - 1
    /\ Len(sg.nav) <= sg.attempts

\* C7: process_link_with_timeout_and_retry never invokes process_link more
\* than max_retries times, and when every attempt failed (exception or
\* timeout) it has invoked it exactly max_retries times, slept exactly
\* max_retries-1 times and ends by raising (Exhausted).
C7_RunnerRetryBound ==
    /\ pl.started <= pl.max_retries
    /\ (RunnerSettled /\ AllFailed(pl.hist)) =>
          /\ pl.pc = "raised"
          /\ pl.started = pl.max_retries
          /\ pl.sleeps = pl.max_retries - 1

C7_Witness ==
    /\ pl.pc = "raised"
    /\ pl.max_retries = 3
    /\ pl.hist = <<"retryable", "timeout", "retryable">>

====
